---- MODULE Spec2Model ----
(***************************************************************************)
(* Conway's Game of Life playground (gameoflife.py): the module-level      *)
(* loading of saved_boards.json, the event loop of main_loop (key, mouse   *)
(* and quit events, the per-frame paint and generation step) and the       *)
(* final json.dump of key_map.                                             *)
(***************************************************************************)
EXTENDS Integers, Sequences, FiniteSets, TLC

VARIABLES
    pc,                    \* "start" | "main" | "loop" | "persist" | "done" | "crashed"
    cfg,                   \* arguments of main_loop and the cell image size
    file,                  \* saved_boards.json
    key_map,               \* module global key_map
    grid_x, grid_y,        \* grid size, margin included
    initial_grid,          \* the current board, index y * grid_x + x
    output_grid,           \* the scratch board
    override_save_mode, delete_save_mode, game_paused,
    counter, limit, MOUSE_DOWN, running,
    text_save_slots_list,  \* the nine labels drawn for the slots
    last,                  \* history: the event handled last and what it did
    bound,                 \* history: the board as it was when a slot was bound
    prev_map,              \* history: key_map as it was dumped by the last session
    seed, gen,             \* history: a seeded pattern and the generations since
    span                   \* history: what has held since the last generation

vars == <<pc, cfg, file, key_map, grid_x, grid_y, initial_grid, output_grid,
          override_save_mode, delete_save_mode, game_paused, counter, limit,
          MOUSE_DOWN, running, text_save_slots_list, last, bound, prev_map,
          seed, gen, span>>

-----------------------------------------------------------------------------
(* Bounds of the model *)

\* frames counted by counter before a frame must step to be taken: where the
\* speed keys are pressed, and where limit stays 4
MaxCounter == 16
MaxPaintCounter == 4
\* generations followed from a seeded pattern
MaxGen == 4

-----------------------------------------------------------------------------
(* Key codes of pygame.constants *)

K_ESCAPE == 27
K_SPACE == 32
K_1 == 49
K_d == 100
K_e == 101
K_r == 114
K_s == 115
K_DOWN == 1073741905
K_UP == 1073741906

\* limit = 4, and the two ends the arrow keys stop at
DefaultLimit == 4
MinLimit == 2
MaxLimit == 15
\* the number of entries a loaded record must have
NumSlots == 9

\* str(n) for n >= 0, as the sequence of its decimal digits
RECURSIVE Str(_)
Str(n) == IF n < 10 THEN <<n>> ELSE Append(Str(n \div 10), n % 10)

\* the keys of the key_map literal: "49" .. "57"
SlotKeys == {Str(K_1 + i) : i \in 0..(NumSlots - 1)}

\* key_map = {"49": [], ..., "57": []}
EmptyKeyMap == [k \in SlotKeys |-> <<>>]

-----------------------------------------------------------------------------
(* saved_boards.json *)

NoFile == [exists |-> FALSE, members |-> {}]

\* json.dump(key_map, f): an object, one member per key of the dict
JsonDumpFilled(m) ==
    [exists |-> TRUE, members |-> {<<k, m[k]>> : k \in {j \in DOMAIN m : m[j] # <<>>}}]
JsonDump(m) == [exists |-> TRUE, members |-> {<<k, m[k]>> : k \in DOMAIN m}]

\* json.load(file): the dict of the object's members
JsonLoad(f) ==
    [k \in {p[1] : p \in f.members} |-> (CHOOSE p \in f.members : p[1] = k)[2]]

\* temp after the try/except: the loaded dict, or key_map when there is no file
LoadTemp(f, km) == IF f.exists THEN JsonLoad(f) ELSE km

\* if len(temp.keys()) == 9: key_map = temp
AcceptTemp(temp, km) == IF Cardinality(DOMAIN temp) = NumSlots THEN temp ELSE km

\* save_slots_list() raises KeyError when a key str(49 + i) is missing
SlotsListFails(m) ==
    \E i \in 0..(Cardinality(DOMAIN m) - 1) : Str(K_1 + i) \notin DOMAIN m

\* save_slots_list(): "Slot i+1: Filled" or "Slot i+1: Empty", by the list's length
save_slots_list(m) ==
    [i \in 1..Cardinality(DOMAIN m) |->
        IF Len(m[Str(K_1 + i - 1)]) # 0 THEN "Filled" ELSE "Empty"]

-----------------------------------------------------------------------------
(* Grids *)

\* [0 for _ in range(grid_x * grid_y)]
ZeroGrid(gx, gy) == [i \in 0..(gx * gy - 1) |-> 0]

Interior(gx, gy) == {c \in (1..(gx - 2)) \X (1..(gy - 2)) : TRUE}
Cells(gx, gy) == (0..(gx - 1)) \X (0..(gy - 1))

\* the coordinates whose cell is 1
Alive(g, gx, gy) == {c \in Cells(gx, gy) : g[c[2] * gx + c[1]] = 1}

\* total: the sum of the eight neighbours of (x, y) in grid g
TotalOfSeven(g, gx, x, y) ==
    g[(y - 1) * gx + (x - 1)] + g[(y - 1) * gx + x] +
    g[(y - 1) * gx + (x + 1)] + g[y * gx + (x - 1)] +
    g[y * gx + (x + 1)] + g[(y + 1) * gx + (x - 1)] +
    g[(y + 1) * gx + x]
Total(g, gx, x, y) ==
    g[(y - 1) * gx + (x - 1)] + g[(y - 1) * gx + x] +
    g[(y - 1) * gx + (x + 1)] + g[y * gx + (x - 1)] +
    g[y * gx + (x + 1)] + g[(y + 1) * gx + (x - 1)] +
    g[(y + 1) * gx + x] + g[(y + 1) * gx + (x + 1)]

\* the body of the nested loop: the write to output_grid for cell (x, y)
StepCell(cur, out, gx, x, y) ==
    LET total == Total(cur, gx, x, y)
        i == y * gx + x
    IN  IF cur[i] = 1
        THEN IF total = 2 \/ total = 3
             THEN [out EXCEPT ![i] = 1]
             ELSE [out EXCEPT ![i] = 0]
        ELSE IF total = 3 THEN [out EXCEPT ![i] = 1] ELSE out

\* the n-th cell the nested loop visits (n from 0): x outer, y inner
LoopCell(gy, n) == <<1 + (n \div (gy - 2)), 1 + (n % (gy - 2))>>

\* the first n iterations of the nested loop: cells read from cur, written to out
RECURSIVE StepPassInPlace(_, _, _, _, _)
StepPassInPlace(cur, out, gx, gy, n) ==
    IF n = 0 THEN cur
    ELSE LET prev == StepPassInPlace(cur, out, gx, gy, n - 1)
             c == LoopCell(gy, n - 1)
         IN  StepCell(prev, prev, gx, c[1], c[2])
RECURSIVE StepPass(_, _, _, _, _)
StepPass(cur, out, gx, gy, n) ==
    IF n = 0 THEN out
    ELSE LET c == LoopCell(gy, n - 1)
         IN  StepCell(cur, StepPass(cur, out, gx, gy, n - 1), gx, c[1], c[2])

\* the whole pass over the interior
Generation(cur, out, gx, gy) == StepPass(cur, out, gx, gy, (gx - 2) * (gy - 2))

\* [(x, y) for x in range(grid_x) for y in range(grid_y) if initial_grid[...] == 1],
\* the first n pairs the comprehension visits
RECURSIVE ExportFirst(_, _, _, _)
ExportFirst(g, gx, gy, n) ==
    IF n = 0 THEN <<>>
    ELSE LET x == (n - 1) \div gy
             y == (n - 1) % gy
             rest == ExportFirst(g, gx, gy, n - 1)
         IN  IF g[y * gx + x] = 1 THEN Append(rest, <<x, y>>) ELSE rest

ExportInteriorOnly(g, gx, gy) ==
    SelectSeq(ExportFirst(g, gx, gy, gx * gy),
              LAMBDA c : c \in Interior(gx, gy))
ExportLive(g, gx, gy) == ExportFirst(g, gx, gy, gx * gy)

\* a Python list index: negative indexes count from the end
PyIndex(i, n) == IF i < 0 THEN i + n ELSE i
IndexOk(i, n) == -n <= i /\ i < n

\* for cell_loc in key_map[key]: if cell_loc[0] < grid_x and cell_loc[1] < grid_y:
\*     initial_grid[cell_loc[1] * grid_x + cell_loc[0]] = 1
\* over the first n entries of the list; ok is FALSE once an index raised IndexError
RECURSIVE ImportOnto(_, _, _, _, _)
ImportOnto(g, list, gx, gy, n) ==
    IF n = 0 THEN [ok |-> TRUE, g |-> g]
    ELSE LET prev == ImportOnto(g, list, gx, gy, n - 1)
             c == list[n]
             i == c[2] * gx + c[1]
         IN  IF ~prev.ok THEN prev
             ELSE IF c[1] < gx /\ c[2] < gy
                  THEN IF IndexOk(i, gx * gy)
                       THEN [ok |-> TRUE,
                             g |-> [prev.g EXCEPT ![PyIndex(i, gx * gy)] = 1]]
                       ELSE [ok |-> FALSE, g |-> prev.g]
                  ELSE prev

\* the slot load: a fresh grid, then the listed cells
ImportNoClear(g, list, gx, gy) == ImportOnto(g, list, gx, gy, Len(list))
ImportInteriorOnly(g, list, gx, gy) ==
    LET inside == SelectSeq(list, LAMBDA c : c \in Interior(gx, gy))
    IN  ImportOnto(ZeroGrid(gx, gy), inside, gx, gy, Len(inside))
ImportLive(g, list, gx, gy) == ImportOnto(ZeroGrid(gx, gy), list, gx, gy, Len(list))

-----------------------------------------------------------------------------
(* The key handlers of the event loop, in the order the code runs them *)

\* if event.key == K_e and game_paused: both grids are replaced by fresh ones
EraseKeyAnyTime(k, paused, g, gx, gy) == IF k = K_e THEN ZeroGrid(gx, gy) ELSE g
EraseKey(k, paused, g, gx, gy) ==
    IF k = K_e /\ paused THEN ZeroGrid(gx, gy) ELSE g

\* if event.key == K_SPACE and not override_save_mode and not delete_save_mode
PauseKeyAlways(k, paused, ovr, del) == IF k = K_SPACE THEN ~paused ELSE paused
PauseKey(k, paused, ovr, del) ==
    IF k = K_SPACE /\ ~ovr /\ ~del THEN ~paused ELSE paused

\* if K_r: limit = 4 / elif K_UP and limit != 2 / elif K_DOWN and limit < 15
SpeedKeyUnclamped(k, lim) ==
    IF k = K_r THEN DefaultLimit
    ELSE IF k = K_UP THEN lim - 1
    ELSE IF k = K_DOWN THEN lim + 1
    ELSE lim
SpeedKey(k, lim) ==
    IF k = K_r THEN DefaultLimit
    ELSE IF k = K_UP /\ lim # MinLimit THEN lim - 1
    ELSE IF k = K_DOWN /\ lim < MaxLimit THEN lim + 1
    ELSE lim

\* if event.key == K_s and not delete_save_mode
ArmBindAlways(k, ovr, del) == IF k = K_s THEN ~ovr ELSE ovr
ArmBind(k, ovr, del) == IF k = K_s /\ ~del THEN ~ovr ELSE ovr

\* if event.key == K_d and not override_save_mode
ArmDeleteAlways(k, ovr, del) == IF k = K_d THEN ~del ELSE del
ArmDelete(k, ovr, del) == IF k = K_d /\ ~ovr THEN ~del ELSE del

\* if event_key_str in key_map.keys() and override_save_mode
BindFires(ks, km, ovr) == ks \in DOMAIN km /\ ovr

\* if event_key_str in key_map.keys(): if not override and not delete:
\*     if len(key_map[event_key_str]) != 0
LoadFiresAlways(ks, km, ovr, del) == ks \in DOMAIN km /\ ~ovr /\ ~del
LoadFires(ks, km, ovr, del) ==
    ks \in DOMAIN km /\ ~ovr /\ ~del /\ Len(km[ks]) # 0

\* if delete_save_mode: if event_key_str in key_map.keys(): the slot key was pressed
DeleteKeyed(ks, km, del) == del /\ ks \in DOMAIN km

\* ... if key_map[event_key_str]: the slot is cleared
DeleteFires(ks, km, del) == DeleteKeyed(ks, km, del) /\ km[ks] # <<>>

\* delete_save_mode = not delete_save_mode, inside "if key_map[event_key_str]"
DisarmDeleteAnySlot(ks, km, del) == IF DeleteKeyed(ks, km, del) THEN ~del ELSE del
DisarmDelete(ks, km, del) == IF DeleteFires(ks, km, del) THEN ~del ELSE del

-----------------------------------------------------------------------------
(* The continuous paint of a frame *)

\* x = mouse_pos[0] // cell width + 1, y likewise; left button sets, right clears
PaintCellClamped(g, gx, gy, c, px, py, b0, b2) ==
    LET x == px \div c.cell_w + 1
        y == py \div c.cell_h + 1
        i == y * gx + x
    IN  IF <<x, y>> \notin Interior(gx, gy) THEN g
        ELSE IF b0 THEN [g EXCEPT ![i] = 1]
        ELSE IF b2 THEN [g EXCEPT ![i] = 0]
        ELSE g
PaintCell(g, gx, gy, c, px, py, b0, b2) ==
    LET x == px \div c.cell_w + 1
        y == py \div c.cell_h + 1
        i == y * gx + x
    IN  IF b0 THEN [g EXCEPT ![i] = 1]
        ELSE IF b2 THEN [g EXCEPT ![i] = 0]
        ELSE g

\* grid_x = (size[0] // blue_cell.get_width()) + 2, grid_y likewise
GridX(c) == (c.width \div c.cell_w) + 2
GridY(c) == (c.height \div c.cell_h) + 2

\* the pointer positions inside the window
Window(c) == (0..(c.width - 1)) \X (0..(c.height - 1))

-----------------------------------------------------------------------------
(* Initial states: the process before saved_boards.json is read *)

NoBound == [k \in SlotKeys |-> <<>>]

Locals(c) ==
    /\ grid_x = GridX(c)
    /\ grid_y = GridY(c)
    /\ initial_grid = ZeroGrid(GridX(c), GridY(c))
    /\ output_grid = ZeroGrid(GridX(c), GridY(c))
    /\ override_save_mode = FALSE
    /\ delete_save_mode = FALSE
    /\ game_paused = TRUE
    /\ counter = 0
    /\ limit = DefaultLimit
    /\ MOUSE_DOWN = FALSE
    /\ running = TRUE

InitWith(cfgs, files) ==
    /\ pc = "start"
    /\ cfg \in cfgs
    /\ file \in files
    /\ key_map = EmptyKeyMap
    /\ Locals(cfg)
    /\ text_save_slots_list = <<>>
    /\ last = <<"init", 0, "none">>
    /\ bound = NoBound
    /\ prev_map = <<>>
    /\ seed = <<>>
    /\ gen = 0
    /\ span = "broken"

-----------------------------------------------------------------------------
(* Actions *)

\* lines 31-42: read saved_boards.json, keep it if it has nine keys
LoadBoards ==
    /\ pc = "start"
    /\ key_map' = AcceptTemp(LoadTemp(file, key_map), key_map)
    /\ pc' = "main"
    /\ last' = <<"load", 0, "none">>
    /\ UNCHANGED <<cfg, file, grid_x, grid_y, initial_grid, output_grid,
                   override_save_mode, delete_save_mode, game_paused, counter,
                   limit, MOUSE_DOWN, running, text_save_slots_list, bound,
                   prev_map, seed, gen, span>>

\* lines 63-137: main_loop up to the event loop
MainLoopSetup ==
    /\ pc = "main"
    /\ IF SlotsListFails(key_map)
       THEN /\ pc' = "crashed"
            /\ last' = <<"setup", 0, "KeyError">>
            /\ UNCHANGED <<grid_x, grid_y, initial_grid, output_grid,
                           override_save_mode, delete_save_mode, game_paused,
                           counter, limit, MOUSE_DOWN, running,
                           text_save_slots_list>>
       ELSE /\ pc' = "loop"
            /\ last' = <<"setup", 0, "none">>
            /\ grid_x' = GridX(cfg)
            /\ grid_y' = GridY(cfg)
            /\ initial_grid' = ZeroGrid(GridX(cfg), GridY(cfg))
            /\ output_grid' = ZeroGrid(GridX(cfg), GridY(cfg))
            /\ text_save_slots_list' = save_slots_list(key_map)
            /\ override_save_mode' = FALSE
            /\ delete_save_mode' = FALSE
            /\ game_paused' = TRUE
            /\ counter' = 0
            /\ limit' = DefaultLimit
            /\ MOUSE_DOWN' = FALSE
            /\ running' = TRUE
    /\ prev_map' = <<>>
    /\ span' = "broken"
    /\ UNCHANGED <<cfg, file, key_map, bound, seed, gen>>

\* for event in pygame.event.get(): the events of a frame are handled until one
\* of them sets running = False and breaks out of the loop
EventsPolledAfterQuit(r) == TRUE
EventsPolled(r) == r

\* lines 145-147: the QUIT event
Quit ==
    /\ pc = "loop" /\ EventsPolled(running)
    /\ running' = FALSE
    /\ last' = <<"quit", 0, "quit">>
    /\ UNCHANGED <<pc, cfg, file, key_map, grid_x, grid_y, initial_grid,
                   output_grid, override_save_mode, delete_save_mode,
                   game_paused, counter, limit, MOUSE_DOWN,
                   text_save_slots_list, bound, prev_map, seed, gen, span>>

\* lines 150-226: a KEYDOWN event with event.key = k
KeyDown(k) ==
    /\ pc = "loop" /\ EventsPolled(running)
    /\ LET ks == Str(k)
           g1 == EraseKey(k, game_paused, initial_grid, grid_x, grid_y)
           out1 == EraseKey(k, game_paused, output_grid, grid_x, grid_y)
           p1 == PauseKey(k, game_paused, override_save_mode, delete_save_mode)
           l1 == SpeedKey(k, limit)
           o1 == IF p1 THEN ArmBind(k, override_save_mode, delete_save_mode)
                 ELSE override_save_mode
           d1 == IF p1 THEN ArmDelete(k, o1, delete_save_mode)
                 ELSE delete_save_mode
           bind == p1 /\ BindFires(ks, key_map, o1)
           km1 == IF bind
                  THEN [key_map EXCEPT ![ks] = ExportLive(g1, grid_x, grid_y)]
                  ELSE key_map
           t1 == IF bind
                 THEN [text_save_slots_list EXCEPT ![k - K_1 + 1] = "Filled"]
                 ELSE text_save_slots_list
           o2 == IF bind THEN ~o1 ELSE o1
           load == p1 /\ LoadFires(ks, km1, o2, d1)
           imp == IF load THEN ImportLive(g1, km1[ks], grid_x, grid_y)
                  ELSE [ok |-> TRUE, g |-> g1]
           delete == p1 /\ DeleteFires(ks, km1, d1)
           km2 == IF delete THEN [km1 EXCEPT ![ks] = <<>>] ELSE km1
           t2 == IF delete THEN [t1 EXCEPT ![k - K_1 + 1] = "Empty"] ELSE t1
           d2 == IF p1 THEN DisarmDelete(ks, km1, d1) ELSE d1
           did == IF bind THEN "bind" ELSE IF load THEN "load"
                  ELSE IF delete THEN "delete" ELSE "none"
       IN  IF k = K_ESCAPE
           THEN /\ running' = FALSE
                /\ last' = <<"key", k, "quit">>
                /\ UNCHANGED <<pc, key_map, initial_grid, output_grid,
                               override_save_mode, delete_save_mode,
                               game_paused, limit, text_save_slots_list, bound,
                               span>>
           ELSE IF ~imp.ok
           THEN /\ pc' = "crashed"
                /\ last' = <<"key", k, "IndexError">>
                /\ UNCHANGED <<running, key_map, initial_grid, output_grid,
                               override_save_mode, delete_save_mode,
                               game_paused, limit, text_save_slots_list, bound,
                               span>>
           ELSE /\ initial_grid' = imp.g
                /\ output_grid' = out1
                /\ game_paused' = p1
                /\ limit' = l1
                /\ override_save_mode' = o2
                /\ delete_save_mode' = d2
                /\ key_map' = km2
                /\ text_save_slots_list' = t2
                /\ bound' = IF bind THEN [bound EXCEPT ![ks] = <<g1>>]
                            ELSE IF delete THEN [bound EXCEPT ![ks] = <<>>]
                            ELSE bound
                /\ last' = <<"key", k, did>>
                /\ span' = IF p1 # game_paused THEN "broken"
                           ELSE IF l1 # limit /\ span = "steady" THEN "running"
                           ELSE span
                /\ UNCHANGED <<pc, running>>
    /\ UNCHANGED <<cfg, file, grid_x, grid_y, counter, MOUSE_DOWN, prev_map,
                   seed, gen>>

\* lines 229-231: MOUSEBUTTONDOWN
MouseButtonDown ==
    /\ pc = "loop" /\ EventsPolled(running)
    /\ MOUSE_DOWN' = IF game_paused THEN TRUE ELSE MOUSE_DOWN
    /\ last' = <<"mousedown", 0, "none">>
    /\ UNCHANGED <<pc, cfg, file, key_map, grid_x, grid_y, initial_grid,
                   output_grid, override_save_mode, delete_save_mode,
                   game_paused, counter, limit, running,
                   text_save_slots_list, bound, prev_map, seed, gen, span>>

\* lines 232-234: MOUSEBUTTONUP
MouseButtonUp ==
    /\ pc = "loop" /\ EventsPolled(running)
    /\ MOUSE_DOWN' = IF game_paused THEN FALSE ELSE MOUSE_DOWN
    /\ last' = <<"mouseup", 0, "none">>
    /\ UNCHANGED <<pc, cfg, file, key_map, grid_x, grid_y, initial_grid,
                   output_grid, override_save_mode, delete_save_mode,
                   game_paused, counter, limit, running,
                   text_save_slots_list, bound, prev_map, seed, gen, span>>

\* if not game_paused and counter >= limit, after counter += 1
StepDueEveryFrame(paused, c, lim) == ~paused
StepDue(paused, c, lim) == ~paused /\ c >= lim

\* lines 236-274: the rest of a frame after the events: the paint at pointer
\* (px, py) with buttons b0 (left) and b2 (right), the counter and the generation.
\* A frame that does not step is taken only while counter < cap, or as the last
\* frame after a quit.
Frame(px, py, b0, b2, cap) ==
    /\ pc = "loop"
    /\ LET paint == game_paused /\ MOUSE_DOWN
           g1 == IF paint
                 THEN PaintCell(initial_grid, grid_x, grid_y, cfg, px, py, b0, b2)
                 ELSE initial_grid
           c1 == counter + 1
           step == StepDue(game_paused, c1, limit)
       IN  /\ step \/ counter < cap \/ ~running
           /\ step /\ seed # <<>> => gen < MaxGen
           /\ initial_grid' = IF step
                              THEN Generation(g1, output_grid, grid_x, grid_y)
                              ELSE g1
           /\ output_grid' = IF step THEN ZeroGrid(grid_x, grid_y)
                             ELSE output_grid
           /\ counter' = IF step THEN 0 ELSE c1
           /\ gen' = IF step /\ seed # <<>> THEN gen + 1 ELSE gen
           /\ span' = IF step THEN "steady" ELSE span
           /\ last' = <<"frame", 0,
                        IF step THEN "step"
                        ELSE IF paint /\ (b0 \/ b2) THEN "paint" ELSE "none">>
    /\ pc' = IF running THEN "loop" ELSE "persist"
    /\ UNCHANGED <<cfg, file, key_map, grid_x, grid_y, override_save_mode,
                   delete_save_mode, game_paused, limit, MOUSE_DOWN, running,
                   text_save_slots_list, bound, prev_map, seed>>

\* lines 319-321: json.dump(key_map, f) once the loop has ended
Persist ==
    /\ pc = "persist"
    /\ file' = JsonDump(key_map)
    /\ prev_map' = <<key_map>>
    /\ pc' = "done"
    /\ last' = <<"persist", 0, "none">>
    /\ UNCHANGED <<cfg, key_map, grid_x, grid_y, initial_grid, output_grid,
                   override_save_mode, delete_save_mode, game_paused, counter,
                   limit, MOUSE_DOWN, running, text_save_slots_list, bound,
                   seed, gen, span>>

\* the program is started again: line 29 and the locals of a new main_loop
NextSession ==
    /\ pc = "done"
    /\ pc' = "start"
    /\ key_map' = EmptyKeyMap
    /\ grid_x' = GridX(cfg)
    /\ grid_y' = GridY(cfg)
    /\ initial_grid' = ZeroGrid(GridX(cfg), GridY(cfg))
    /\ output_grid' = ZeroGrid(GridX(cfg), GridY(cfg))
    /\ override_save_mode' = FALSE
    /\ delete_save_mode' = FALSE
    /\ game_paused' = TRUE
    /\ counter' = 0
    /\ limit' = DefaultLimit
    /\ MOUSE_DOWN' = FALSE
    /\ running' = TRUE
    /\ text_save_slots_list' = <<>>
    /\ bound' = NoBound
    /\ last' = <<"init", 0, "none">>
    /\ span' = "broken"
    /\ UNCHANGED <<cfg, file, prev_map, seed, gen>>

-----------------------------------------------------------------------------
(* Specifications: the same actions under different inputs *)

Square(w, c) == [width |-> w, height |-> w, cell_w |-> c, cell_h |-> c]

\* Scheduler: every command key except the slot keys, no mouse
SchedKeys == {K_SPACE, K_UP, K_DOWN, K_r, K_s, K_d, K_e}
SchedInit == InitWith({Square(3, 1)}, {NoFile})
SchedNext ==
    \/ LoadBoards
    \/ MainLoopSetup
    \/ \E k \in SchedKeys : KeyDown(k)
    \/ Frame(0, 0, FALSE, FALSE, MaxCounter)
SpecSched == SchedInit /\ [][SchedNext]_vars

\* Life: a 2 x 2 interior in a window (5) that is no multiple of the cell size
\* (2), painted at one pixel of every cell the pointer reaches; slot 1 comes
\* loaded from a record and is only ever loaded from
LifeRecord ==
    JsonDump([EmptyKeyMap EXCEPT ![Str(K_1)] = <<<<1, 1>>, <<2, 1>>, <<3, 3>>>>])
LifeKeys == {K_SPACE, K_e, K_1}
LifePointers == {0, 2, 4} \X {0, 2, 4}
LifeButtons == {<<TRUE, FALSE>>, <<FALSE, TRUE>>}
LifeInit == InitWith({Square(5, 2)}, {LifeRecord})
LifeNext ==
    \/ LoadBoards
    \/ MainLoopSetup
    \/ \E k \in LifeKeys : KeyDown(k)
    \/ MouseButtonDown
    \/ MouseButtonUp
    \/ \E p \in LifePointers, b \in LifeButtons :
           Frame(p[1], p[2], b[1], b[2], MaxPaintCounter)
SpecLife == LifeInit /\ [][LifeNext]_vars

\* Slots: bind, load and delete on slots 1 and 9; the pointer reaches one
\* interior cell, (1, 1), and the margin corner, (3, 3)
K_9 == K_1 + NumSlots - 1
SlotsKeys == {K_SPACE, K_e, K_s, K_d, K_1, K_9}
SlotsPointers == {<<0, 0>>, <<4, 4>>}
SlotsInit == InitWith({Square(5, 2)}, {NoFile})
SlotsNext ==
    \/ LoadBoards
    \/ MainLoopSetup
    \/ \E k \in SlotsKeys : KeyDown(k)
    \/ MouseButtonDown
    \/ MouseButtonUp
    \/ \E p \in SlotsPointers, b \in LifeButtons :
           Frame(p[1], p[2], b[1], b[2], MaxPaintCounter)
SpecSlots == SlotsInit /\ [][SlotsNext]_vars

\* Import: a record on disk whose lists hold pairs of any integers: slot 1 an
\* interior cell, a margin cell and a pair right of the grid; slot 2 a negative x
\* whose index names another cell; slot 9 a pair whose index lies before the list
ImportRecord ==
    JsonDump([EmptyKeyMap EXCEPT
                  ![Str(K_1)] = <<<<1, 1>>, <<0, 2>>, <<4, 1>>>>,
                  ![Str(K_1 + 1)] = <<<<-3, 2>>>>,
                  ![Str(K_9)] = <<<<2, 2>>, <<-1, -4>>>>])
ImportKeys == {K_SPACE, K_e, K_1, K_1 + 1, K_9}
ImportPointers == {<<2, 0>>}
ImportInit == InitWith({Square(5, 2)}, {ImportRecord})
ImportNext ==
    \/ LoadBoards
    \/ MainLoopSetup
    \/ \E k \in ImportKeys : KeyDown(k)
    \/ MouseButtonDown
    \/ \E p \in ImportPointers, b \in LifeButtons :
           Frame(p[1], p[2], b[1], b[2], MaxPaintCounter)
SpecImport == ImportInit /\ [][ImportNext]_vars

\* Store: records on disk (one with a board in slot 9), binds on slot 1, quit,
\* the dump and the next session
WithSlot9 == [EmptyKeyMap EXCEPT ![Str(K_9)] = <<<<2, 2>>, <<1, 2>>>>]
\* a record that lacks "57", one with "58" added, one with "58" in place of "57",
\* and the keys "1" .. "9"
LacksKey == [k \in SlotKeys \ {Str(K_9)} |-> WithSlot9[k]]
ExtraKey == [k \in SlotKeys \cup {Str(K_9 + 1)} |-> <<>>]
WrongKey == [k \in (SlotKeys \ {Str(K_9)}) \cup {Str(K_9 + 1)} |-> <<>>]
DigitKeys == [k \in {Str(i) : i \in 1..NumSlots} |-> <<>>]
StoreRecords ==
    {NoFile, JsonDump(WithSlot9), JsonDump(LacksKey), JsonDump(ExtraKey),
     JsonDump(WrongKey), JsonDump(DigitKeys)}
StoreKeys == {K_s, K_1, K_9, K_ESCAPE}
StorePointers == {<<0, 0>>}
StoreButtons == {<<TRUE, FALSE>>}
StoreInit == InitWith({Square(5, 2)}, StoreRecords)
StoreNext ==
    \/ LoadBoards
    \/ MainLoopSetup
    \/ Quit
    \/ \E k \in StoreKeys : KeyDown(k)
    \/ MouseButtonDown
    \/ \E p \in StorePointers, b \in StoreButtons :
           Frame(p[1], p[2], b[1], b[2], MaxPaintCounter)
    \/ Persist
    \/ NextSession
SpecStore == StoreInit /\ [][StoreNext]_vars

\* the same, with the control flow of the program going on: the loop body runs
\* its frame (lines 236-318) and the statement after the loop (line 320) runs
StoreFrame == \E p \in StorePointers, b \in StoreButtons :
                  Frame(p[1], p[2], b[1], b[2], MaxPaintCounter)
SpecStoreLive ==
    StoreInit /\ [][StoreNext]_vars /\ WF_vars(StoreFrame) /\ WF_vars(Persist)

\* Glider: a 5 x 5 interior (window 5, cell 1) on which a glider has been painted,
\* in any of its orientations and phases, anywhere its 3 x 3 box fits
GliderPhases ==
    {{<<1, 0>>, <<2, 1>>, <<0, 2>>, <<1, 2>>, <<2, 2>>},
     {<<0, 0>>, <<2, 0>>, <<1, 1>>, <<2, 1>>, <<1, 2>>}}

\* a reflection or rotation t = <<swap, flip x, flip y>> of the 3 x 3 box
Turn(c, t) ==
    LET a == IF t[1] THEN <<c[2], c[1]>> ELSE c
        b == IF t[2] THEN <<2 - a[1], a[2]>> ELSE a
    IN  IF t[3] THEN <<b[1], 2 - b[2]>> ELSE b
TurnDir(d, t) ==
    LET a == IF t[1] THEN <<d[2], d[1]>> ELSE d
        b == IF t[2] THEN <<-a[1], a[2]>> ELSE a
    IN  IF t[3] THEN <<b[1], -b[2]>> ELSE b

Translate(cells, d) == {<<c[1] + d[1], c[2] + d[2]>> : c \in cells}

\* the gliders: their cells on the grid and their direction of travel
Gliders ==
    {[cells |-> Translate({Turn(c, t) : c \in ph}, o), dir |-> TurnDir(<<1, 1>>, t)] :
        ph \in GliderPhases, t \in BOOLEAN \X BOOLEAN \X BOOLEAN,
        o \in (1..3) \X (1..3)}

GridOf(cells, gx, gy) ==
    [i \in 0..(gx * gy - 1) |-> IF <<i % gx, i \div gx>> \in cells THEN 1 ELSE 0]

\* the state after the glider was painted, one cell a frame, and the button released
GliderInit ==
    /\ pc = "loop"
    /\ cfg = Square(5, 1)
    /\ file = NoFile
    /\ key_map = EmptyKeyMap
    /\ grid_x = GridX(cfg)
    /\ grid_y = GridY(cfg)
    /\ seed \in {<<s>> : s \in Gliders}
    /\ initial_grid = GridOf(seed[1].cells, GridX(cfg), GridY(cfg))
    /\ output_grid = ZeroGrid(GridX(cfg), GridY(cfg))
    /\ override_save_mode = FALSE
    /\ delete_save_mode = FALSE
    /\ game_paused = TRUE
    /\ counter = 5
    /\ limit = DefaultLimit
    /\ MOUSE_DOWN = FALSE
    /\ running = TRUE
    /\ text_save_slots_list = save_slots_list(EmptyKeyMap)
    /\ last = <<"mouseup", 0, "none">>
    /\ bound = NoBound
    /\ prev_map = <<>>
    /\ gen = 0
    /\ span = "broken"
GliderNext ==
    \/ KeyDown(K_SPACE)
    \/ Frame(0, 0, FALSE, FALSE, MaxPaintCounter)
SpecGlider == GliderInit /\ [][GliderNext]_vars

-----------------------------------------------------------------------------
(* Claims *)

\* what the last event was
LastKey(k) == last[1] = "key" /\ last[2] = k
LastDid(d) == last[3] = d

\* the live neighbours of cell c in grid g, as a set of coordinates
LiveNeighbours(g, gx, gy, c) ==
    {d \in Alive(g, gx, gy) :
        /\ d # c
        /\ d[1] - c[1] \in {-1, 0, 1}
        /\ d[2] - c[2] \in {-1, 0, 1}}

\* the Life rule: survive on 2 or 3, be born on 3
LifeRule(alive, n) == IF alive THEN n \in {2, 3} ELSE n = 3

\* C1: a generation step sets every interior cell to the Life rule applied to the
\* grid as it was before the step: alive before, it is alive after iff 2 or 3 of its
\* 8 neighbours were alive; dead before, iff exactly 3 were.
C1_StepIsLifeRule ==
    [][LastDid("step")' =>
        \A c \in Interior(grid_x, grid_y) :
            (initial_grid'[c[2] * grid_x + c[1]] = 1) <=>
                LifeRule(initial_grid[c[2] * grid_x + c[1]] = 1,
                         Cardinality(LiveNeighbours(initial_grid, grid_x, grid_y, c)))]_vars

\* a step has left the block that fills the interior
C1_Witness ==
    /\ LastDid("step")
    /\ Alive(initial_grid, grid_x, grid_y) = Interior(grid_x, grid_y)

\* C3: limit stays in 2..15 from its start at 4 under any Up, Down and R keys;
\* Up at 2 and Down at 15 leave it unchanged, R sets it to 4.
C3_LimitClamped ==
    [][/\ limit \in MinLimit..MaxLimit
       /\ limit' \in MinLimit..MaxLimit
       /\ pc = "main" => limit' = DefaultLimit
       /\ LastKey(K_UP)' /\ limit = MinLimit => limit' = MinLimit
       /\ LastKey(K_DOWN)' /\ limit = MaxLimit => limit' = MaxLimit
       /\ LastKey(K_r)' => limit' = DefaultLimit]_vars

\* the slowest speed, reached by Down while a mode is armed
C3_Witness ==
    /\ LastKey(K_DOWN)
    /\ limit = MaxLimit
    /\ override_save_mode

\* the key codes of the slot keys, and the event handled last as a slot key
SlotCodes == {K_1 + i : i \in 0..(NumSlots - 1)}
LastSlot(k) == LastKey(k) /\ k \in SlotCodes
Range(list) == {list[i] : i \in 1..Len(list)}

\* C4: bind mode and delete mode are never armed together; D while bind is armed and
\* S while delete is armed change neither flag; bind mode is disarmed only by a
\* completed bind or by S, and delete is armed only while bind is not.
C4_ModesExclusive ==
    [][/\ ~(override_save_mode /\ delete_save_mode)
       /\ ~(override_save_mode' /\ delete_save_mode')
       /\ LastKey(K_d)' /\ override_save_mode =>
              override_save_mode' /\ ~delete_save_mode'
       /\ LastKey(K_s)' /\ delete_save_mode =>
              delete_save_mode' /\ ~override_save_mode'
       /\ ~delete_save_mode /\ delete_save_mode' =>
              LastKey(K_d)' /\ ~override_save_mode
       /\ override_save_mode /\ ~override_save_mode' =>
              LastDid("bind")' \/ LastKey(K_s)']_vars

\* D was pressed while bind mode was armed, and bind mode is still armed
C4_Witness ==
    /\ LastKey(K_d)
    /\ override_save_mode
    /\ ~delete_save_mode

\* C5: with bind mode armed, a slot key k sets slot k to exactly the coordinates alive
\* in the board, leaves the other slots unchanged and disarms bind mode; a key that is
\* neither a slot key nor S leaves bind mode armed.
C5_BindSavesBoard ==
    [][override_save_mode /\ last'[1] = "key" =>
        IF last'[2] \in SlotCodes
        THEN /\ Range(key_map'[Str(last'[2])]) = Alive(initial_grid, grid_x, grid_y)
             /\ Len(key_map'[Str(last'[2])])
                    = Cardinality(Alive(initial_grid, grid_x, grid_y))
             /\ \A j \in SlotKeys \ {Str(last'[2])} : key_map'[j] = key_map[j]
             /\ DOMAIN key_map' = SlotKeys
             /\ ~override_save_mode'
        ELSE last'[2] # K_s => override_save_mode']_vars

\* slot 9 was just bound to a board with the interior cell and the margin corner alive
C5_Witness ==
    /\ LastSlot(K_9)
    /\ LastDid("bind")
    /\ ~override_save_mode
    /\ Range(key_map[Str(K_9)]) = {<<1, 1>>, <<3, 3>>}
    /\ key_map[Str(K_1)] = <<<<1, 1>>>>

\* C6 as claimed: with delete mode armed, a slot key always disarms delete mode, and
\* on an empty slot changes no slot.
C6_DeleteAlwaysDisarms ==
    [][delete_save_mode /\ last'[1] = "key" /\ last'[2] \in SlotCodes =>
        /\ ~delete_save_mode'
        /\ key_map[Str(last'[2])] = <<>> => key_map' = key_map]_vars

\* C6 as amended: with delete mode armed, a slot key on a slot that holds a board
\* empties that slot only and disarms delete mode; on an empty slot it changes no slot
\* and delete mode stays armed.
C6_DeleteDisarmsOnFilled ==
    [][delete_save_mode /\ last'[1] = "key" /\ last'[2] \in SlotCodes =>
        IF key_map[Str(last'[2])] # <<>>
        THEN /\ key_map' = [key_map EXCEPT ![Str(last'[2])] = <<>>]
             /\ ~delete_save_mode'
        ELSE /\ key_map' = key_map
             /\ delete_save_mode']_vars

\* the key of empty slot 1 was pressed with delete mode armed, slot 9 holding a board
C6_Witness ==
    /\ LastSlot(K_1)
    /\ LastDid("none")
    /\ delete_save_mode
    /\ key_map[Str(K_1)] = <<>>
    /\ key_map[Str(K_9)] # <<>>

\* C7: the key of a slot that was bound to a board with a live cell, pressed while
\* paused with no mode armed, makes the board exactly the board that was bound.
C7_LoadRestoresBound ==
    [][/\ last'[1] = "key" /\ last'[2] \in SlotCodes
       /\ game_paused /\ ~override_save_mode /\ ~delete_save_mode
       /\ bound[Str(last'[2])] # <<>>
       /\ Alive(bound[Str(last'[2])][1], grid_x, grid_y) # {}
       => /\ initial_grid' = bound[Str(last'[2])][1]
          /\ Alive(initial_grid', grid_x', grid_y')
                 = Alive(bound[Str(last'[2])][1], grid_x, grid_y)
          /\ DOMAIN initial_grid' = DOMAIN initial_grid]_vars

\* slot 1 was just loaded and gave back its two-cell board, slot 9 holding another
C7_Witness ==
    /\ LastSlot(K_1)
    /\ LastDid("load")
    /\ bound[Str(K_1)] = <<initial_grid>>
    /\ Alive(initial_grid, grid_x, grid_y) = {<<1, 1>>, <<3, 3>>}
    /\ bound[Str(K_9)] # <<>>
    /\ bound[Str(K_9)] # bound[Str(K_1)]
    /\ key_map[Str(K_9)] # <<>>

\* C8: the key of an empty slot, pressed while paused with no mode armed, leaves the
\* board unchanged; a completed delete leaves its slot empty.
C8_EmptySlotKeepsBoard ==
    [][/\ /\ last'[1] = "key" /\ last'[2] \in SlotCodes
          /\ game_paused /\ ~override_save_mode /\ ~delete_save_mode
          /\ key_map[Str(last'[2])] = <<>>
          => initial_grid' = initial_grid /\ key_map' = key_map
       /\ LastDid("delete")' =>
              /\ key_map[Str(last'[2])] # <<>>
              /\ key_map'[Str(last'[2])] = <<>>]_vars

\* the key of empty slot 1 was pressed with no mode armed and the board kept its cells
C8_Witness ==
    /\ LastSlot(K_1)
    /\ LastDid("none")
    /\ game_paused /\ ~override_save_mode /\ ~delete_save_mode
    /\ key_map[Str(K_1)] = <<>>
    /\ bound[Str(K_1)] = <<>>
    /\ Alive(initial_grid, grid_x, grid_y) = {<<1, 1>>, <<3, 3>>}

\* C2 as claimed: four generations after a glider was placed anywhere in the 5 x 5
\* interior, the live cells are that glider moved one cell in x and one in y.
C2_GliderMoves ==
    seed # <<>> /\ gen = 4 =>
        \E d \in {-1, 1} \X {-1, 1} :
            Alive(initial_grid, grid_x, grid_y) = Translate(seed[1].cells, d)

\* C2 as amended: when the glider moved one cell along its direction of travel still
\* lies in the interior, the live cells after four generations are exactly that.
C2_GliderMovesInside ==
    /\ seed # <<>> /\ gen = 4
    /\ Translate(seed[1].cells, seed[1].dir) \subseteq Interior(grid_x, grid_y)
    => Alive(initial_grid, grid_x, grid_y) = Translate(seed[1].cells, seed[1].dir)

\* four generations on, a glider that started in a corner box is one cell further in
C2_Witness ==
    /\ seed # <<>> /\ gen = 4
    /\ LastDid("step")
    /\ seed[1].cells = {<<2, 1>>, <<3, 2>>, <<1, 3>>, <<2, 3>>, <<3, 3>>}
    /\ Alive(initial_grid, grid_x, grid_y) = Translate(seed[1].cells, <<1, 1>>)

\* the keys of the record on disk
FileKeys(f) == {p[1] : p \in f.members}

\* C9 as claimed: the startup load never ends the program, leaves key_map with exactly
\* the nine slot keys, and leaves the empty default whenever the record is absent or
\* its keys are not exactly the nine slot keys.
C9_LoadFallsBack ==
    /\ pc # "crashed"
    /\ pc \in {"main", "loop", "persist", "done"} => DOMAIN key_map = SlotKeys
    /\ pc = "main" /\ (~file.exists \/ FileKeys(file) # SlotKeys) =>
           key_map = EmptyKeyMap

\* C10: the record dumped at the end of a session, loaded by the next session, gives a
\* key_map whose nine slots hold the same coordinate lists.
C10_DumpLoadRoundTrip ==
    pc = "main" /\ prev_map # <<>> =>
        /\ DOMAIN key_map = SlotKeys
        /\ \A k \in SlotKeys : Range(key_map[k]) = Range(prev_map[1][k])
        /\ key_map = prev_map[1]

\* the next session has loaded a record with slot 1 bound, slot 9 filled, others empty
C10_Witness ==
    /\ pc = "main"
    /\ prev_map # <<>>
    /\ key_map[Str(K_1)] = <<<<1, 1>>>>
    /\ key_map[Str(K_9)] # <<>>
    /\ key_map[Str(K_1 + 1)] = <<>>

\* the event handled last was the rest of a frame
LastFrame == last[1] = "frame"

\* C11 as claimed: a frame while paused leaves counter as it was, and counter stays
\* below 15, the upper end of limit, in every state.
C11_PausedTickIsNoOp ==
    [][/\ LastFrame' /\ game_paused => counter' = counter
       /\ counter < MaxLimit
       /\ counter' < MaxLimit]_vars

\* C17: while the simulation has stayed running with limit unchanged since the last
\* generation, a frame steps exactly when it is the limit-th since that generation;
\* while it has stayed running, a generation comes at the 15th frame at the latest.
C17_StepEveryLimitTicks ==
    [][LastFrame' =>
        /\ span = "steady" =>
               /\ ~game_paused
               /\ counter < limit
               /\ LastDid("step")' <=> counter + 1 = limit
               /\ ~LastDid("step")' => counter' = counter + 1
        /\ span \in {"steady", "running"} =>
               /\ ~game_paused
               /\ counter < MaxLimit
               /\ counter + 1 = MaxLimit => LastDid("step")'
        /\ LastDid("step")' => counter' = 0 /\ span' = "steady"]_vars

\* at the slowest speed, fourteen frames after a generation and none stepped yet
C17_Witness ==
    /\ span = "steady"
    /\ LastFrame
    /\ limit = MaxLimit
    /\ counter = MaxLimit - 1

\* C18: an armed mode implies paused; a mode is armed only while paused, Space while a
\* mode is armed leaves the pause flag unchanged, and no generation steps while armed.
C18_ArmedImpliesPaused ==
    [][/\ override_save_mode \/ delete_save_mode => game_paused
       /\ override_save_mode' \/ delete_save_mode' => game_paused'
       /\ \/ ~override_save_mode /\ override_save_mode'
          \/ ~delete_save_mode /\ delete_save_mode'
          => game_paused /\ game_paused'
       /\ LastKey(K_SPACE)' /\ (override_save_mode \/ delete_save_mode) =>
              game_paused' = game_paused
       /\ LastDid("step")' => ~override_save_mode /\ ~delete_save_mode]_vars

\* Space was pressed with delete mode armed, and the simulation is still paused
C18_Witness ==
    /\ LastKey(K_SPACE)
    /\ delete_save_mode
    /\ game_paused

\* C12 as claimed: in every state of the main loop every margin cell is dead, that
\* is, every live cell of the board is an interior cell.
C12_MarginAlwaysDead ==
    pc = "loop" => Alive(initial_grid, grid_x, grid_y) \subseteq Interior(grid_x, grid_y)

\* C14: a generation steps only in a frame of a running simulation; while running,
\* every key event and every frame that does not step (its paint included) leaves the
\* board unchanged; so the board changes only by a paint, a clear or a load while
\* paused, or by a step while running.
C14_EditsPausedStepsRunning ==
    [][/\ LastDid("step")' => ~game_paused /\ LastFrame'
       /\ ~game_paused /\ last'[1] \in {"key", "mousedown", "mouseup"} =>
              initial_grid' = initial_grid
       /\ ~game_paused /\ LastFrame' /\ ~LastDid("step")' =>
              initial_grid' = initial_grid
       /\ initial_grid' # initial_grid =>
              \/ game_paused /\ LastDid("paint")'
              \/ game_paused /\ LastKey(K_e)'
              \/ game_paused /\ LastDid("load")'
              \/ ~game_paused /\ LastDid("step")']_vars

\* E was pressed while running with the button held, and the board still has live cells
C14_Witness ==
    /\ LastKey(K_e)
    /\ ~game_paused
    /\ MOUSE_DOWN
    /\ Alive(initial_grid, grid_x, grid_y) # {}

\* C13 as claimed: a slot key pressed while paused with no mode armed, on a slot whose
\* list is not empty, raises no error, keeps the size of the grid, and leaves alive
\* exactly the listed coordinates that are interior cells.
C13_LoadKeepsInteriorOnly ==
    [][\A k \in SlotCodes :
           /\ pc = "loop"
           /\ LastKey(k)'
           /\ game_paused /\ ~override_save_mode /\ ~delete_save_mode
           /\ key_map[Str(k)] # <<>>
           => /\ pc' = "loop"
              /\ DOMAIN initial_grid' = DOMAIN initial_grid
              /\ Alive(initial_grid', grid_x, grid_y)
                     = Range(key_map[Str(k)]) \cap Interior(grid_x, grid_y)]_vars

\* C15 as claimed: the list of slot k changes only in a key event of slot key k taken
\* while paused with bind mode or delete mode armed, and a slot that holds a board
\* becomes empty only in an event that completes a delete.
C15_SlotsChangeOnlyByBindOrDelete ==
    [][\A k \in SlotCodes :
           /\ key_map'[Str(k)] # key_map[Str(k)] =>
                  /\ LastKey(k)'
                  /\ game_paused
                  /\ override_save_mode \/ delete_save_mode
           /\ key_map[Str(k)] # <<>> /\ key_map'[Str(k)] = <<>> =>
                  LastDid("delete")']_vars

\* C16: the record is written only by the one dump that follows the last frame of a
\* loop that a quit event (window close or Escape) has stopped, never during the loop
\* and never again after it; from the quit event to the dump no event is handled and
\* the nine slots stay as they were, so the record written is key_map as it stood at
\* the quit; and every run that has received a quit event reaches that dump.
C16_QuitPersistsOnce ==
    /\ [][/\ file' # file \/ last'[1] = "persist" =>
                 /\ pc = "persist" /\ pc' = "done"
                 /\ ~running
                 /\ file' = JsonDump(key_map)
                 /\ key_map' = key_map
          /\ running /\ ~running' =>
                 /\ pc = "loop" /\ pc' = "loop"
                 /\ LastDid("quit")'
                 /\ key_map' = key_map
          /\ ~running /\ pc = "loop" =>
                 /\ LastFrame'
                 /\ pc' = "persist"
                 /\ key_map' = key_map
          /\ pc = "done" => file' = file]_vars
    /\ (pc = "loop" /\ ~running) ~> (pc = "done" /\ file = JsonDump(key_map))

\* a run has ended after a quit with a board bound to slot 1, and the record on disk
\* is the nine-slot mapping
C16_Witness ==
    /\ pc = "done"
    /\ ~running
    /\ key_map[Str(K_1)] # <<>>
    /\ file = JsonDump(key_map)

\* C19: the key event that completes a bind leaves every cell of the board as it was,
\* whatever the board: the list just bound is loaded back onto a fresh grid.
C19_BindKeepsBoard ==
    [][LastDid("bind")' =>
           /\ override_save_mode /\ ~override_save_mode'
           /\ initial_grid' = initial_grid
           /\ Alive(initial_grid', grid_x, grid_y) = Range(key_map'[Str(last'[2])])]_vars

\* a board with an interior cell and a cell on the edge of the grid has been bound
C19_Witness ==
    /\ LastDid("bind")
    /\ Alive(initial_grid, grid_x, grid_y) = {<<1, 1>>, <<3, 3>>}

\* C20 as claimed: in every state of the main loop the label of slot N reads "Filled"
\* exactly when the list of slot N is not empty, and "Empty" otherwise, for N in 1..9.
C20_LabelMatchesSlot ==
    pc = "loop" =>
        \A N \in 1..NumSlots :
            /\ text_save_slots_list[N] \in {"Filled", "Empty"}
            /\ text_save_slots_list[N] = "Filled" <=> key_map[Str(K_1 + N - 1)] # <<>>

====
